---- MODULE Spec2Model ----
(***************************************************************************)
(* Domra Tech glossary viewer (assets/js/app.js): the loader, the view     *)
(* switching, the category buttons, the debounced search box and the       *)
(* search/filter/render pipeline, as a state machine.                      *)
(*                                                                         *)
(* Strings are sequences of one-character strings, so that toLowerCase,    *)
(* trim and includes are computed and not assumed.  JavaScript values that *)
(* may be absent or of the wrong type are tagged records.                  *)
(***************************************************************************)
EXTENDS Integers, Sequences, FiniteSets, TLC

(***************************************************************************)
(* Bounds of the model.                                                    *)
(***************************************************************************)
\* number of loadData invocations (the first one by DOMContentLoaded)
MaxLoads == 2

Loads == 1..MaxLoads

(***************************************************************************)
(* JavaScript values.                                                      *)
(***************************************************************************)
Undefined == [t |-> "undefined"]

Str(s) == [t |-> "string", v |-> s]

Num(n) == [t |-> "number", v |-> n]

Arr(a) == [t |-> "array", v |-> a]

Obj(en, km) == [t |-> "object", english |-> en, khmer |-> km]

\* ToBoolean of a tagged value
Truthy(x) ==
    CASE x.t = "undefined" -> FALSE
      [] x.t = "string"    -> Len(x.v) > 0
      [] x.t = "number"    -> x.v # 0
      [] OTHER             -> TRUE

\* String.prototype.toLowerCase, one character
LowerChar(c) ==
    CASE c = "A" -> "a"
      [] c = "B" -> "b"
      [] c = "C" -> "c"
      [] c = "K" -> "k"
      [] OTHER   -> c

\* String.prototype.toLowerCase
toLowerCase(s) == [i \in 1..Len(s) |-> LowerChar(s[i])]

\* String.prototype.includes
includes(s, sub) ==
    \E i \in 0..(Len(s) - Len(sub)) : SubSeq(s, i + 1, i + Len(sub)) = sub

IsSpace(c) == c = " "

RECURSIVE trimStart(_)
trimStart(s) ==
    IF s # <<>> /\ IsSpace(Head(s)) THEN trimStart(Tail(s)) ELSE s

RECURSIVE trimEnd(_)
trimEnd(s) ==
    IF s # <<>> /\ IsSpace(s[Len(s)]) THEN trimEnd(SubSeq(s, 1, Len(s) - 1)) ELSE s

\* String.prototype.trim
trim(s) == trimEnd(trimStart(s))

(***************************************************************************)
(* Evaluation with exceptions: "T" and "F" are a truthy and a falsy        *)
(* result, "X" is a thrown TypeError.                                      *)
(***************************************************************************)
Bool3(b) == IF b THEN "T" ELSE "F"

\* a || b, with b evaluated only when a is falsy
OrElse(a, b) == IF a = "F" THEN b ELSE a

\* x.toLowerCase().includes(searchLower) on a value known not to be undefined
LowerIncludes(x, searchLower) ==
    IF x.t = "string" THEN Bool3(includes(toLowerCase(x.v), searchLower)) ELSE "X"

\* x.includes(searchTerm) on a value known not to be undefined
PlainIncludes(x, searchTerm) ==
    CASE x.t = "string" -> Bool3(includes(x.v, searchTerm))
      [] x.t = "array"  -> "F"
      [] OTHER          -> "X"

\* tags.some(tag => tag.toLowerCase().includes(searchLower)), from index i
RECURSIVE SomeTag(_, _, _)
SomeTag(tags, i, searchLower) ==
    IF i > Len(tags) THEN "F"
    ELSE OrElse(LowerIncludes(tags[i], searchLower), SomeTag(tags, i + 1, searchLower))

DescriptionCheck(word, searchLower) ==
    IF ~Truthy(word.description) THEN "F"
    ELSE LowerIncludes(word.description, searchLower)

TagsCheck(word, searchLower) ==
    IF ~Truthy(word.tags) THEN "F"
    ELSE IF word.tags.t = "array" THEN SomeTag(word.tags.v, 1, searchLower)
    ELSE "X"

ExamplesCheck(word, searchTerm, searchLower) ==
    IF ~Truthy(word.examples) THEN "F"
    ELSE IF word.examples.t # "object" THEN "F"
    ELSE OrElse(
           IF word.examples.english.t = "undefined" THEN "F"
           ELSE LowerIncludes(word.examples.english, searchLower),
           IF word.examples.khmer.t = "undefined" THEN "F"
           ELSE PlainIncludes(word.examples.khmer, searchTerm))

\* searchMatches with the Khmer fields compared against the folded search text
searchMatchesFoldedKhmer(word, searchTerm) ==
    LET searchLower == toLowerCase(searchTerm) IN
    OrElse(Bool3(includes(toLowerCase(word.english), searchLower)),
    OrElse(Bool3(includes(word.khmer, searchLower)),
    OrElse(DescriptionCheck(word, searchLower),
    OrElse(TagsCheck(word, searchLower),
           ExamplesCheck(word, searchLower, searchLower)))))

searchMatches(word, searchTerm) ==
    LET searchLower == toLowerCase(searchTerm) IN
    OrElse(Bool3(includes(toLowerCase(word.english), searchLower)),
    OrElse(Bool3(includes(word.khmer, searchTerm)),
    OrElse(DescriptionCheck(word, searchLower),
    OrElse(TagsCheck(word, searchLower),
           ExamplesCheck(word, searchTerm, searchLower)))))

\* currentSearch === '' || searchMatches(word, currentSearch)
matchesSearch(word, search) ==
    IF search = <<>> THEN "T" ELSE searchMatches(word, search)

\* currentFilter === 'all' || word.category === currentFilter
matchesCategory(word, filter) == filter = "all" \/ word.category = filter

\* the callback with matchesSearch || matchesCategory
WordPassesEither(word, search, filter) ==
    IF matchesSearch(word, search) = "X" THEN "X"
    ELSE Bool3(matchesSearch(word, search) = "T" \/ matchesCategory(word, filter))

\* the callback of lexiconData.filter for one word
WordPasses(word, search, filter) ==
    IF matchesSearch(word, search) = "X" THEN "X"
    ELSE Bool3(matchesSearch(word, search) = "T" /\ matchesCategory(word, filter))

RECURSIVE FilterFrom(_, _, _, _)
FilterFrom(data, i, search, filter) ==
    IF i > Len(data) THEN [threw |-> FALSE, words |-> <<>>]
    ELSE LET r == WordPasses(data[i], search, filter)
             rest == FilterFrom(data, i + 1, search, filter)
         IN  IF r = "X" \/ rest.threw THEN [threw |-> TRUE, words |-> <<>>]
             ELSE [threw |-> FALSE,
                   words |-> IF r = "T" THEN <<data[i]>> \o rest.words ELSE rest.words]

\* filterWords(): the filtered list, or a thrown exception
filterWords(data, search, filter) == FilterFrom(data, 1, search, filter)

(***************************************************************************)
(* The three JSON documents.  A term is a record of the fields the code    *)
(* reads; a category map is the sequence of its entries in insertion       *)
(* order (Object.entries).  JsonNull is the document "null": valid JSON    *)
(* that is not an object.                                                  *)
(***************************************************************************)
Term(en, km, cat, desc, tags, ex, who, st) ==
    [english |-> en, khmer |-> km, category |-> cat, description |-> desc,
     tags |-> tags, examples |-> ex, contributors |-> who, status |-> st]

TermCab ==
    Term(<<"C", "a", "b">>, <<"k", "A">>, "storage", Str(<<"b", "c">>),
         Arr(<<Str(<<"B">>)>>), Undefined, <<"ann">>, "verified")

TermAc ==
    Term(<<"a", "c">>, <<"k">>, "compute", Undefined, Undefined,
         Obj(Str(<<"A", "b">>), Str(<<"K">>)), <<"ann", "bo">>, "draft")

TermB ==
    Term(<<"b">>, <<"k", "b">>, "storage", Str(<<>>), Arr(<<>>),
         Obj(Undefined, Undefined), <<>>, "verified")

TermCc ==
    Term(<<"c", "c">>, <<"K">>, "network", Undefined, Undefined, Undefined,
         <<>>, "draft")

JsonNull == [null |-> TRUE]

LexiconDocs ==
    [A    |-> [null |-> FALSE, terms |-> <<TermCab, TermAc, TermB>>],
     B    |-> [null |-> FALSE, terms |-> <<TermAc, TermCc>>],
     null |-> JsonNull]

CategoryEntry(key, name, icon) == [key |-> key, name |-> name, icon |-> icon]

CategoriesA ==
    <<CategoryEntry("storage", "Storage", "S"), CategoryEntry("compute", "Compute", "C")>>

CategoriesDocs ==
    [A    |-> [null |-> FALSE, categories |-> CategoriesA],
     null |-> JsonNull]

WebsiteDocs ==
    [A    |-> [null |-> FALSE, version |-> "1.0.0"],
     null |-> JsonNull]

\* what the user can type into the search box
SearchInputs == {<<>>, <<" ", "a">>}

(***************************************************************************)
(* State.                                                                  *)
(***************************************************************************)
VARIABLES
    lexiconData,     \* let lexiconData
    categoriesData,  \* let categoriesData
    websiteInfo,     \* let websiteInfo
    currentFilter,   \* let currentFilter
    currentSearch,   \* let currentSearch
    loading,         \* elements.loading.style.display
    error,           \* elements.error.style.display
    mainContent,     \* elements.mainContent.style.display
    filterButtons,   \* the buttons in elements.filterButtons
    statsContainer,  \* the stat cards in elements.statsContainer
    wordGrid,        \* the content of elements.wordGrid
    resultsCount,    \* the number in elements.resultsCount, <<>> before a render
    searchValue,     \* elements.searchInput.value
    listeners,       \* how often setupEventListeners has registered its listeners
    timers,          \* the input listeners whose debounce timer is pending
    pc,              \* where each loadData invocation stands
    fetched,         \* the fetches of each invocation that returned an ok response
    lexiconJson,     \* const lexiconJson of each invocation
    categoriesJson,  \* const categoriesJson of each invocation
    uncaught         \* an exception reached the window error handler

vars ==
    <<lexiconData, categoriesData, websiteInfo, currentFilter, currentSearch,
      loading, error, mainContent, filterButtons, statsContainer, wordGrid,
      resultsCount, searchValue, listeners, timers, pc, fetched, lexiconJson,
      categoriesJson, uncaught>>

dataVars == <<lexiconData, categoriesData, websiteInfo>>

queryVars == <<currentFilter, currentSearch>>

viewVars == <<loading, error, mainContent>>

domVars == <<filterButtons, statsContainer, wordGrid, resultsCount>>

inputVars == <<searchValue, listeners, timers>>

loadVars == <<pc, fetched, lexiconJson, categoriesJson>>

Resources == {0, 1, 2}

(***************************************************************************)
(* Rendering.                                                              *)
(***************************************************************************)
RECURSIVE CategoryLabel(_, _, _)
CategoryLabel(cats, i, key) ==
    IF i > Len(cats) THEN key
    ELSE IF cats[i].key = key THEN cats[i].name
    ELSE CategoryLabel(cats, i + 1, key)

createWordCard(word, cats) ==
    [word |-> word, category |-> CategoryLabel(cats, 1, word.category)]

renderNoResults == [kind |-> "no-results", cards |-> <<>>]

renderWordCards(words, cats) ==
    [kind |-> "cards", cards |-> [i \in 1..Len(words) |-> createWordCard(words[i], cats)]]

\* renderWords without its no-results branch
renderWordsAlwaysCards(data, cats, search, filter, count, grid) ==
    LET filteredWords == filterWords(data, search, filter) IN
    IF filteredWords.threw
    THEN [threw |-> TRUE, count |-> count, grid |-> grid]
    ELSE [threw |-> FALSE,
          count |-> <<Len(filteredWords.words)>>,
          grid  |-> renderWordCards(filteredWords.words, cats)]

\* renderWords(): the new label and grid, or the old ones when filterWords threw
renderWords(data, cats, search, filter, count, grid) ==
    LET filteredWords == filterWords(data, search, filter) IN
    IF filteredWords.threw
    THEN [threw |-> TRUE, count |-> count, grid |-> grid]
    ELSE [threw |-> FALSE,
          count |-> <<Len(filteredWords.words)>>,
          grid  |-> IF Len(filteredWords.words) = 0 THEN renderNoResults
                    ELSE renderWordCards(filteredWords.words, cats)]

createFilterButton(categoryKey, isActive) == [category |-> categoryKey, active |-> isActive]

populateCategoryButtons(cats) ==
    <<createFilterButton("all", TRUE)>> \o
    [i \in 1..Len(cats) |-> createFilterButton(cats[i].key, FALSE)]

RECURSIVE Contributors(_, _)
Contributors(data, i) ==
    IF i > Len(data) THEN {}
    ELSE {data[i].contributors[j] : j \in 1..Len(data[i].contributors)}
         \cup Contributors(data, i + 1)

updateStats(data, cats) ==
    [terms        |-> Len(data),
     categories   |-> Len(cats),
     contributors |-> Cardinality(Contributors(data, 1)),
     verified     |-> Cardinality({i \in 1..Len(data) : data[i].status = "verified"})]

(***************************************************************************)
(* View switching.                                                         *)
(***************************************************************************)
showLoading == loading' = "block" /\ error' = "none" /\ mainContent' = "none"

\* showError without hiding the main content
showErrorKeepsMain == loading' = "none" /\ error' = "block" /\ UNCHANGED mainContent

showError == loading' = "none" /\ error' = "block" /\ mainContent' = "none"

\* hideLoading(); showMainContent();
hideLoadingShowMainContent ==
    loading' = "none" /\ mainContent' = "block" /\ UNCHANGED error

(***************************************************************************)
(* loadData.  An invocation runs to its first await in one step.  What     *)
(* follows a settled promise (the continuation of fetchWithTimeout, of     *)
(* Promise.all and of loadData up to its next await, or its catch block)   *)
(* runs as microtasks of the same task: no other handler runs in between.  *)
(***************************************************************************)
Init ==
    /\ lexiconData = <<>>
    /\ categoriesData = <<>>
    /\ websiteInfo = [version |-> "none"]
    /\ currentFilter = "all"
    /\ currentSearch = <<>>
    /\ loading = "block"
    /\ error = "none"
    /\ mainContent = "none"
    /\ filterButtons = <<>>
    /\ statsContainer = <<>>
    /\ wordGrid = [kind |-> "empty", cards |-> <<>>]
    /\ resultsCount = <<>>
    /\ searchValue = <<>>
    /\ listeners = 0
    /\ timers = {}
    /\ pc = [l \in Loads |-> IF l = 1 THEN "fetching" ELSE "idle"]
    /\ fetched = [l \in Loads |-> {}]
    /\ lexiconJson = [l \in Loads |-> "none"]
    /\ categoriesJson = [l \in Loads |-> "none"]
    /\ uncaught = FALSE

\* window.loadData(): showLoading() and the three fetchWithTimeout calls
StartLoad(l) ==
    /\ pc[l] = "idle"
    /\ \A k \in Loads : k < l => pc[k] # "idle"
    /\ showLoading
    /\ pc' = [pc EXCEPT ![l] = "fetching"]
    /\ UNCHANGED <<dataVars, queryVars, domVars, inputVars, fetched, lexiconJson,
                   categoriesJson, uncaught>>

\* the locals of an invocation that has returned are gone
DropLocals(l) ==
    /\ fetched' = [fetched EXCEPT ![l] = {}]
    /\ lexiconJson' = [lexiconJson EXCEPT ![l] = "none"]
    /\ categoriesJson' = [categoriesJson EXCEPT ![l] = "none"]

\* the catch block of loadData; pc keeps what was thrown
CatchError(l, thrown) ==
    /\ showError
    /\ pc' = [pc EXCEPT ![l] = thrown]
    /\ DropLocals(l)

\* fetch(url) of resource i resolves with an ok response: clearTimeout, return it;
\* with the third one Promise.all resolves and loadData calls lexiconResponse.json()
FetchOk(l, i) ==
    /\ pc[l] = "fetching"
    /\ i \notin fetched[l]
    /\ fetched' = [fetched EXCEPT ![l] = @ \cup {i}]
    /\ pc' = [pc EXCEPT ![l] = IF fetched[l] \cup {i} = Resources THEN "json0" ELSE @]
    /\ UNCHANGED <<dataVars, queryVars, viewVars, domVars, inputVars, lexiconJson,
                   categoriesJson, uncaught>>

\* a rejection of one fetchWithTimeout rejects Promise.all
FetchFails(l, i) ==
    /\ pc[l] = "fetching"
    /\ i \notin fetched[l]
    /\ CatchError(l, "fetch-failed")
    /\ UNCHANGED <<dataVars, queryVars, domVars, inputVars, uncaught>>

\* fetch rejects (network error)
FetchNetworkError(l, i) == FetchFails(l, i)

\* fetch resolves with !response.ok: throw new Error
FetchHttpError(l, i) == FetchFails(l, i)

\* the timer of fetchWithTimeout fires while fetch is pending: controller.abort()
FetchTimeout(l, i) == FetchFails(l, i)

\* response.json() rejects: a body that is not JSON, or that fails to arrive
JsonRejects(l) ==
    /\ pc[l] \in {"json0", "json1", "json2"}
    /\ CatchError(l, "json-failed")
    /\ UNCHANGED <<dataVars, queryVars, domVars, inputVars, uncaught>>

\* lexiconResponse.json() resolves
LexiconParsed(l, d) ==
    /\ pc[l] = "json0"
    /\ lexiconJson' = [lexiconJson EXCEPT ![l] = d]
    /\ pc' = [pc EXCEPT ![l] = "json1"]
    /\ UNCHANGED <<dataVars, queryVars, viewVars, domVars, inputVars, fetched,
                   categoriesJson, uncaught>>

\* categoriesResponse.json() resolves
CategoriesParsed(l, d) ==
    /\ pc[l] = "json1"
    /\ categoriesJson' = [categoriesJson EXCEPT ![l] = d]
    /\ pc' = [pc EXCEPT ![l] = "json2"]
    /\ UNCHANGED <<dataVars, queryVars, viewVars, domVars, inputVars, fetched,
                   lexiconJson, uncaught>>

\* lexiconJson.terms || [] (every lexicon object of LexiconDocs has its terms)
StoredTerms(doc) == doc.terms

\* categoriesJson.categories || {} (likewise)
StoredCategories(doc) == doc.categories

\* websiteJson || {}
StoredWebsite(doc) == IF doc.null THEN [version |-> "none"] ELSE [version |-> doc.version]

\* "Store data" throws at lexiconJson.terms: nothing was assigned
StoreThrowsAtLexicon(l) ==
    /\ CatchError(l, "store-failed")
    /\ UNCHANGED <<dataVars, domVars, listeners>>

\* "Store data" throws at categoriesJson.categories: lexiconData was assigned
StoreThrowsAtCategories(l, lex) ==
    /\ lexiconData' = StoredTerms(lex)
    /\ CatchError(l, "store-failed")
    /\ UNCHANGED <<categoriesData, websiteInfo, domVars, listeners>>

\* the data is stored; hideLoading, showMainContent, initializeInterface, renderWords
StoreAndShow(l, lex, cat, web) ==
    LET data == StoredTerms(lex)
        cats == StoredCategories(cat)
        r    == renderWords(data, cats, currentSearch, currentFilter, resultsCount, wordGrid)
    IN  /\ lexiconData' = data
        /\ categoriesData' = cats
        /\ websiteInfo' = StoredWebsite(web)
        /\ filterButtons' = populateCategoryButtons(cats)
        /\ statsContainer' = <<updateStats(data, cats)>>
        /\ listeners' = listeners + 1
        /\ resultsCount' = r.count
        /\ wordGrid' = r.grid
        /\ IF r.threw
           THEN CatchError(l, "render-failed")
           ELSE /\ hideLoadingShowMainContent
                /\ pc' = [pc EXCEPT ![l] = "done"]
                /\ DropLocals(l)

\* websiteResponse.json() resolves: the rest of loadData runs
WebsiteParsed(l, d) ==
    /\ pc[l] = "json2"
    /\ LET lex == LexiconDocs[lexiconJson[l]]
           cat == CategoriesDocs[categoriesJson[l]]
           web == WebsiteDocs[d]
       IN  IF lex.null THEN StoreThrowsAtLexicon(l)
           ELSE IF cat.null THEN StoreThrowsAtCategories(l, lex)
           ELSE StoreAndShow(l, lex, cat, web)
    /\ UNCHANGED <<queryVars, searchValue, timers, uncaught>>

(***************************************************************************)
(* The search box and the category buttons.                                *)
(***************************************************************************)
\* an input event: every registered debounced listener clears and sets its timer
InputEvent(v) ==
    /\ listeners > 0
    /\ v # searchValue
    /\ searchValue' = v
    /\ timers' = 1..listeners
    /\ UNCHANGED <<dataVars, queryVars, viewVars, domVars, listeners, loadVars, uncaught>>

\* the oldest pending debounce timer fires: currentSearch = value.trim(); renderWords()
DebounceFires ==
    /\ timers # {}
    /\ LET k == CHOOSE t \in timers : \A u \in timers : t <= u
           search == trim(searchValue)
           r == renderWords(lexiconData, categoriesData, search, currentFilter,
                            resultsCount, wordGrid)
       IN  /\ timers' = timers \ {k}
           /\ currentSearch' = search
           /\ resultsCount' = r.count
           /\ wordGrid' = r.grid
           /\ uncaught' = (uncaught \/ r.threw)
    /\ UNCHANGED <<dataVars, currentFilter, viewVars, filterButtons, statsContainer,
                   searchValue, listeners, loadVars>>

\* the buttons after handleFilterClick(button b)
PressOnly(buttons, b) ==
    [i \in 1..Len(buttons) |-> [buttons[i] EXCEPT !.active = (i = b)]]

\* the places a button can have: "all" and one per category
ButtonIndexes == 1..(Len(CategoriesA) + 1)

\* a click on button b: handleFilterClick (every registered click listener runs it,
\* and running it again changes nothing)
FilterClick(b) ==
    /\ listeners > 0
    /\ b \in 1..Len(filterButtons)
    /\ LET filter == filterButtons[b].category
           r == renderWords(lexiconData, categoriesData, currentSearch, filter,
                            resultsCount, wordGrid)
       IN  /\ filterButtons' = PressOnly(filterButtons, b)
           /\ currentFilter' = filter
           /\ resultsCount' = r.count
           /\ wordGrid' = r.grid
           /\ uncaught' = (uncaught \/ r.threw)
    /\ UNCHANGED <<dataVars, currentSearch, viewVars, statsContainer, inputVars, loadVars>>

Next ==
    \/ \E l \in Loads : StartLoad(l)
    \/ \E l \in Loads, i \in Resources : FetchOk(l, i)
    \/ \E l \in Loads, i \in Resources : FetchNetworkError(l, i)
    \/ \E l \in Loads, i \in Resources : FetchHttpError(l, i)
    \/ \E l \in Loads, i \in Resources : FetchTimeout(l, i)
    \/ \E l \in Loads : JsonRejects(l)
    \/ \E l \in Loads, d \in DOMAIN LexiconDocs : LexiconParsed(l, d)
    \/ \E l \in Loads, d \in DOMAIN CategoriesDocs : CategoriesParsed(l, d)
    \/ \E l \in Loads, d \in DOMAIN WebsiteDocs : WebsiteParsed(l, d)
    \/ \E v \in SearchInputs : InputEvent(v)
    \/ DebounceFires
    \/ \E b \in ButtonIndexes : FilterClick(b)

Spec == Init /\ [][Next]_vars

(***************************************************************************)
(* The scheduling the event loop guarantees: a pending timer fires.  The   *)
(* network and the user are not obliged to do anything.                    *)
(***************************************************************************)
FairSpec ==
    /\ Spec
    /\ WF_vars(DebounceFires)
    /\ \A l \in Loads, i \in Resources : WF_vars(FetchTimeout(l, i))

(***************************************************************************)
(* The query on its own: the first load has succeeded with some lexicon,   *)
(* whose optional fields may be absent or of the wrong type, and the user  *)
(* searches and filters.                                                   *)
(***************************************************************************)
QueryDescriptions == {Undefined, Str(<<>>), Str(<<"A">>), Num(7)}

QueryTags ==
    {Undefined, Arr(<<>>), Arr(<<Str(<<"c">>), Str(<<"K", "a">>)>>), Arr(<<Num(7)>>),
     Str(<<"a">>)}

QueryExamples ==
    {Undefined, Obj(Undefined, Undefined), Obj(Str(<<"A">>), Undefined),
     Obj(Undefined, Str(<<"K">>)), Obj(Num(7), Undefined), Obj(Undefined, Num(7)),
     Str(<<"a">>)}

QueryNames == {<<<<"A", "b">>, <<"k">>>>, <<<<"c">>, <<"K", "a">>>>}

QueryTerms ==
    {Term(n[1], n[2], "compute", desc, tags, ex, <<>>, "draft") :
        n \in QueryNames, desc \in QueryDescriptions, tags \in QueryTags,
        ex \in QueryExamples}

QueryLexicons == {<<TermB, t>> : t \in QueryTerms}

QuerySearchInputs == {<<>>, <<" ", "a">>, <<"A">>, <<"K">>}

InitQuery ==
    /\ lexiconData \in QueryLexicons
    /\ categoriesData = CategoriesA
    /\ websiteInfo = StoredWebsite(WebsiteDocs["A"])
    /\ currentFilter = "all"
    /\ currentSearch = <<>>
    /\ loading = "none"
    /\ error = "none"
    /\ mainContent = "block"
    /\ filterButtons = populateCategoryButtons(categoriesData)
    /\ statsContainer = <<updateStats(lexiconData, categoriesData)>>
    /\ wordGrid = renderWords(lexiconData, categoriesData, <<>>, "all", <<>>, <<>>).grid
    /\ resultsCount = renderWords(lexiconData, categoriesData, <<>>, "all", <<>>, <<>>).count
    /\ searchValue = <<>>
    /\ listeners = 1
    /\ timers = {}
    /\ pc = [l \in Loads |-> IF l = 1 THEN "done" ELSE "idle"]
    /\ fetched = [l \in Loads |-> {}]
    /\ lexiconJson = [l \in Loads |-> "none"]
    /\ categoriesJson = [l \in Loads |-> "none"]
    /\ uncaught = FALSE

NextQuery ==
    \/ \E v \in QuerySearchInputs : InputEvent(v)
    \/ DebounceFires
    \/ \E b \in ButtonIndexes : FilterClick(b)

SpecQuery == InitQuery /\ [][NextQuery]_vars

(***************************************************************************)
(* What the specification says of a query, stated on its own terms.        *)
(***************************************************************************)
\* a term whose optional fields are absent or of the type the data model gives them
OptionalString(x) == x.t \in {"undefined", "string"}

ConformsToDataModel(word) ==
    /\ OptionalString(word.description)
    /\ \/ word.tags.t = "undefined"
       \/ word.tags.t = "array" /\ \A j \in 1..Len(word.tags.v) : word.tags.v[j].t = "string"
    /\ \/ word.examples.t = "undefined"
       \/ /\ word.examples.t = "object"
          /\ OptionalString(word.examples.english)
          /\ OptionalString(word.examples.khmer)

ContainsFolded(x, s) == x.t = "string" /\ includes(toLowerCase(x.v), toLowerCase(s))

ContainsExact(x, s) == x.t = "string" /\ includes(x.v, s)

CategoryPredicate(word, selected) == selected = "all" \/ word.category = selected

TextPredicate(word, s) ==
    \/ s = <<>>
    \/ includes(toLowerCase(word.english), toLowerCase(s))
    \/ includes(word.khmer, s)
    \/ ContainsFolded(word.description, s)
    \/ /\ word.tags.t = "array"
       /\ \E j \in 1..Len(word.tags.v) : ContainsFolded(word.tags.v[j], s)
    \/ /\ word.examples.t = "object"
       /\ \/ ContainsFolded(word.examples.english, s)
          \/ ContainsExact(word.examples.khmer, s)

\* the positions of the loaded terms that satisfy both predicates
Matching(search, selected) ==
    {i \in 1..Len(lexiconData) :
        CategoryPredicate(lexiconData[i], selected) /\ TextPredicate(lexiconData[i], search)}

\* cards shows exactly the terms at the positions idx, once each, in load order
ShowsInOrder(cards, idx) ==
    /\ Len(cards) = Cardinality(idx)
    /\ \A i \in idx : cards[Cardinality({k \in idx : k <= i})].word = lexiconData[i]

(***************************************************************************)
(* C1: whenever the main content is displayed, the cards of the grid are   *)
(* exactly the loaded terms that satisfy the category predicate and the    *)
(* text predicate under currentFilter and currentSearch, once each and in  *)
(* load order.                                                             *)
(***************************************************************************)
C1_VisibleSetIsQuery ==
    mainContent = "block" => ShowsInOrder(wordGrid.cards, Matching(currentSearch, currentFilter))

C1_Witness ==
    /\ mainContent = "block"
    /\ currentSearch # <<>>
    /\ currentFilter # "all"
    /\ wordGrid.kind = "cards"
    /\ Len(wordGrid.cards) < Len(lexiconData)
    /\ \E l \in Loads : pc[l] = "done"

(***************************************************************************)
(* C2: for the terms of the data model, the text check of the code holds   *)
(* iff the search text is empty or one of the five field checks holds, and *)
(* the grid shows the terms for which it holds together with the category  *)
(* check; with an empty search text the grid is the category-only set.     *)
(***************************************************************************)
C2_TextPredicate ==
    (\A i \in 1..Len(lexiconData) : ConformsToDataModel(lexiconData[i])) =>
        /\ \A i \in 1..Len(lexiconData) :
              (matchesSearch(lexiconData[i], currentSearch) = "T")
                  <=> TextPredicate(lexiconData[i], currentSearch)
        /\ ShowsInOrder(wordGrid.cards, Matching(currentSearch, currentFilter))
        /\ currentSearch = <<>> =>
              ShowsInOrder(wordGrid.cards,
                           {i \in 1..Len(lexiconData) :
                               CategoryPredicate(lexiconData[i], currentFilter)})

\* a term shown because its Khmer example contains the search text as typed,
\* while no other field does
C2_Witness ==
    /\ currentSearch = <<"K">>
    /\ \E j \in 1..Len(wordGrid.cards) :
          LET w == wordGrid.cards[j].word IN
          /\ ConformsToDataModel(w)
          /\ ~includes(w.khmer, currentSearch)
          /\ ~includes(toLowerCase(w.english), toLowerCase(currentSearch))
          /\ ContainsExact(w.examples.khmer, currentSearch)
    /\ \A i \in 1..Len(lexiconData) : ConformsToDataModel(lexiconData[i])

FailedStates == {"fetch-failed", "json-failed", "store-failed", "render-failed"}

C4_FailedLoadStoresNothing ==
    [][(\E l \in Loads : pc[l] \notin FailedStates /\ pc'[l] \in FailedStates)
          => UNCHANGED dataVars]_vars

(***************************************************************************)
(* C5: every invocation of loadData that has started eventually ends, in   *)
(* the main content or in the error view.                                  *)
(***************************************************************************)
C5_EveryLoadEnds ==
    \A l \in Loads :
        (pc[l] \in {"fetching", "json0", "json1", "json2"})
            ~> (pc[l] \in FailedStates \cup {"done"})

(***************************************************************************)
(* C6: an input event replaces the pending delayed search action, so at    *)
(* most one is pending and a burst of input events is followed by one      *)
(* recomputation.                                                          *)
(***************************************************************************)
C6_OnePendingSearch == Cardinality(timers) <= 1

(***************************************************************************)
(* C7: once rendered, the results count is the number of cards; a count of *)
(* zero goes with the no-results state, a positive count with the cards;   *)
(* and while the main content is displayed the count is the number of      *)
(* matching terms.                                                         *)
(***************************************************************************)
C7_CountAndGridAgree ==
    resultsCount # <<>> =>
        /\ resultsCount[1] = Len(wordGrid.cards)
        /\ resultsCount[1] = 0 <=> wordGrid.kind = "no-results"
        /\ resultsCount[1] > 0 <=> wordGrid.kind = "cards"
        /\ mainContent = "block" =>
              resultsCount[1] = Cardinality(Matching(currentSearch, currentFilter))

C7_Witness ==
    /\ resultsCount = <<0>>
    /\ wordGrid.kind = "no-results"
    /\ lexiconData # <<>>
    /\ mainContent = "block"

(***************************************************************************)
(* C8: the query raises no exception, whatever the optional fields of the  *)
(* loaded terms hold.                                                      *)
(***************************************************************************)
C8_QueryNeverRaises == ~uncaught

(***************************************************************************)
(* C9: once the buttons exist, exactly one is active and it is the button  *)
(* of currentFilter.                                                       *)
(***************************************************************************)
C9_ActiveButtonIsFilter ==
    filterButtons # <<>> =>
        /\ Cardinality({b \in 1..Len(filterButtons) : filterButtons[b].active}) = 1
        /\ \A b \in 1..Len(filterButtons) :
              filterButtons[b].active => filterButtons[b].category = currentFilter

(***************************************************************************)
(* C10: at most one of the loading view, the error view and the main       *)
(* content is displayed.                                                   *)
(***************************************************************************)
C10_AtMostOneView ==
    Cardinality({v \in {"loading", "error", "main"} :
        \/ v = "loading" /\ loading = "block"
        \/ v = "error" /\ error = "block"
        \/ v = "main" /\ mainContent = "block"}) <= 1

====
